---- MODULE Spec2Model ----
(***************************************************************************)
(* Site-suitability scoring engine of solar-africa-map (src/RunS.py):      *)
(* SolarFinder.create_sahel_map and its four _draw_* field synthesizers,   *)
(* CityFinderAI.calculate_spot_scores and CityFinderAI.rank_spots, run in  *)
(* the order of CityFinderAI.find_best_spots.                              *)
(*                                                                         *)
(* Numbers.  The code computes in float64.  The model computes in fixed    *)
(* point with floor rounding:                                              *)
(*   - coordinates, distances and decay scales in 1/CU degree;             *)
(*   - exp(), the water/people/roads fields, the rescaled sunshine field   *)
(*     and the normalized fields in 1/U;                                   *)
(*   - sun_power, importance and the priorities in tenths, so a product of *)
(*     one of them with a 1/U value is in 1/(10*U): the accumulated        *)
(*     sunshine and roads sums and the total score are in 1/(10*U).        *)
(* The one float64 value with no fixed-point counterpart that the code can *)
(* produce, 0.0/0.0, is the value NaN: every comparison with it is false   *)
(* and every sum or product with it is NaN.                                *)
(***************************************************************************)
EXTENDS Integers, Sequences, FiniteSets, TLC

VARIABLES
    pc,               \* position in find_best_spots: start, mapped, scored, ranked, failed
    err,              \* the exception that ended the run, or "none"
    size,             \* create_sahel_map(size)
    sunshine_data,    \* rows of get_real_sunshine_data(): country, sun_power, lat, lon
    water_sources,    \* find_water_sources(): lat, lon, size
    population_data,  \* check_population(): country -> people per km2
    big_cities,       \* the city list of _draw_infrastructure: lat, lon, importance
    priorities,       \* CityFinderAI.priorities: factor -> weight (tenths)
    lon_grid, lat_grid,
    sunshine, water, people, roads,
    scores, zones,
    \* app.py, one browser session of the Streamlit script
    file,             \* solar_data.csv on disk: kind (missing, zero_bytes, csv) and rows
    env_key,          \* os.environ.get("GEMINI_API_KEY")
    cache,            \* st.cache_data entry of load_data: <<>> or <<DataFrame>>
    key_input,        \* widget state of the sidebar text_input
    city_index,       \* widget state of the selectbox (0: never touched)
    run,              \* outcome of the last script run: none, done, or the exception
    df, api_key, selected_city_name, selected_city_data,
    button,           \* value st.button returned in the last run
    sent,             \* prompt handed to generate_content in the last run, or <<>>
    n_requests        \* generate_content calls made so far

appvars == <<file, env_key, cache, key_input, city_index, run, df, api_key,
             selected_city_name, selected_city_data, button, sent, n_requests>>

pipevars == <<pc, err, size, sunshine_data, water_sources, population_data, big_cities,
              priorities, lon_grid, lat_grid, sunshine, water, people, roads, scores, zones>>

vars == <<pipevars, appvars>>

-----------------------------------------------------------------------------
(* Bounds of the model *)

MaxSize == 3        \* grids of 0..MaxSize points per axis (the code's default is 100)
MaxSources == 2     \* at most this many rows in sunshine_data / water_sources
RankCols == 4       \* width of the one-row score maps handed to rank_spots alone
MaxRows == 2        \* at most this many rows in solar_data.csv
MaxRequests == 2    \* the report button is pressed until this many requests were sent

-----------------------------------------------------------------------------
(* Fixed-point arithmetic *)

CU == 10            \* coordinate units per degree
U == 1000           \* 1.0
NaN == -999999999   \* 0.0/0.0

IsNaN(v) == v = NaN

SetMin(S) == CHOOSE v \in S : \A w \in S : v <= w
SetMax(S) == CHOOSE v \in S : \A w \in S : w <= v

\* np.min / np.max of an array without NaN (the caller checks it is not empty)
ArrMin(a) == SetMin({a[c] : c \in DOMAIN a})
ArrMax(a) == SetMax({a[c] : c \in DOMAIN a})

RECURSIVE SqrtSearch(_, _, _)
SqrtSearch(n, lo, hi) ==
    IF hi - lo <= 1 THEN lo
    ELSE LET mid == (lo + hi) \div 2
         IN  IF mid * mid <= n THEN SqrtSearch(n, mid, hi) ELSE SqrtSearch(n, lo, mid)

\* np.sqrt, rounded down
Sqrt(n) == SqrtSearch(n, 0, 2048)

\* U * exp(-q/4) for q = 0, 1, 2, ..., rounded to the nearest 1/U
ExpTable ==
    << 1000, 779, 607, 472, 368, 287, 223, 174, 135, 105, 82,
       64, 50, 39, 30, 24, 18, 14, 11, 9, 7, 5,
       4, 3, 2, 2, 2, 1, 1, 1, 1 >>

\* U * exp(-q/4); below 1/(2*U) from the end of the table on
ExpQuarter(q) == IF q < Len(ExpTable) THEN ExpTable[q + 1] ELSE 0

\* np.exp(-distance / scale): exact at 0 (U), interpolated linearly between the
\* quarter points, non-increasing in distance
ExpNeg(distance, scale) ==
    LET q == (4 * distance) \div scale
        r == (4 * distance) % scale
    IN  (ExpQuarter(q) * (scale - r) + ExpQuarter(q + 1) * r) \div scale

-----------------------------------------------------------------------------
(* create_sahel_map: the grid *)

\* np.linspace(start, stop, num) for num >= 0
linspace(start, stop, num) ==
    [i \in 1..num |-> IF num = 1 THEN start
                      ELSE start + ((i - 1) * (stop - start)) \div (num - 1)]

\* np.meshgrid(lons, lats): row index = latitude, column index = longitude
meshgrid_lon(lons, lats) == [c \in (1..Len(lats)) \X (1..Len(lons)) |-> lons[c[2]]]
meshgrid_lat(lons, lats) == [c \in (1..Len(lats)) \X (1..Len(lons)) |-> lats[c[1]]]

\* np.sqrt((lons - lon)**2 + (lats - lat)**2) at one cell
Distance(lons, lats, c, lon, lat) ==
    Sqrt((lons[c] - lon) * (lons[c] - lon) + (lats[c] - lat) * (lats[c] - lat))

-----------------------------------------------------------------------------
(* SolarFinder._draw_* : one raw field per factor *)

\* sum of term[k], k = 1..n, in the order of the loop
SumTo(term, n) ==
    LET S[k \in 0..n] == IF k = 0 THEN 0 ELSE S[k - 1] + term[k]
    IN  S[n]

\* the loop of _draw_sunshine: sunshine_map += exp(-distance / 10.0) * sun_power
AccumSunshine(lons, lats, data) ==
    [c \in DOMAIN lons |->
        SumTo([k \in 1..Len(data) |->
                  ExpNeg(Distance(lons, lats, c, data[k].lon, data[k].lat), 10 * CU)
                      * data[k].sun_power],
              Len(data))]

\* 4.5 + (m - np.min(m)) / (np.max(m) - np.min(m)) * 2.0 on a non-empty array:
\* when max = min every cell is 0.0/0.0
RescaleSunshine(m) ==
    LET lo == ArrMin(m)
        hi == ArrMax(m)
    IN  [c \in DOMAIN m |->
            IF hi = lo THEN NaN
            ELSE (45 * U) \div 10 + ((m[c] - lo) * 2 * U) \div (hi - lo)]

DrawSunshine(lons, lats, data) == RescaleSunshine(AccumSunshine(lons, lats, data))

\* water_map / np.max(water_map) when np.max(water_map) > 0 (an empty array never
\* gets here: _draw_sunshine, which runs first, raises on it)
ScaleToMax(m) ==
    IF DOMAIN m = {} THEN m
    ELSE LET hi == ArrMax(m)
         IN  IF hi > 0 THEN [c \in DOMAIN m |-> (m[c] * U) \div hi] ELSE m

\* the loop of _draw_water: water_map += exp(-distance / spot['size'])
AccumWater(lons, lats, sources) ==
    [c \in DOMAIN lons |->
        SumTo([k \in 1..Len(sources) |->
                  ExpNeg(Distance(lons, lats, c, sources[k].lon, sources[k].lat),
                         sources[k].size)],
              Len(sources))]

DrawWater(lons, lats, sources) == ScaleToMax(AccumWater(lons, lats, sources))

\* people_map += exp(-distance / 5.0) * (people_count / 100.0), for the countries
\* that population_data knows
AccumPeople(lons, lats, population, data) ==
    [c \in DOMAIN lons |->
        SumTo([k \in 1..Len(data) |->
                  IF data[k].country \in DOMAIN population
                  THEN (ExpNeg(Distance(lons, lats, c, data[k].lon, data[k].lat), 5 * CU)
                            * population[data[k].country]) \div 100
                  ELSE 0],
              Len(data))]

\* a _draw_people that ends like _draw_water: people_map / np.max(people_map)
DrawPeopleScaled(lons, lats, population, data) ==
    ScaleToMax(AccumPeople(lons, lats, population, data))

\* a _draw_people that folds "fewer people is better" into the field:
\* clustering * (1 - people_count / 100.0)
DrawPeopleInverted(lons, lats, population, data) ==
    AccumPeople(lons, lats, [n \in DOMAIN population |-> 100 - population[n]], data)

\* _draw_people returns the accumulated map as it is
DrawPeople(lons, lats, population, data) == AccumPeople(lons, lats, population, data)

\* the loop of _draw_infrastructure: roads_map += importance * exp(-distance / 3.0)
AccumInfrastructure(lons, lats, cities) ==
    [c \in DOMAIN lons |->
        SumTo([k \in 1..Len(cities) |->
                  cities[k].importance
                      * ExpNeg(Distance(lons, lats, c, cities[k].lon, cities[k].lat), 3 * CU)],
              Len(cities))]

DrawInfrastructure(lons, lats, cities) == ScaleToMax(AccumInfrastructure(lons, lats, cities))

-----------------------------------------------------------------------------
(* CityFinderAI.calculate_spot_scores and rank_spots *)

Factors == {"sunshine", "water", "people", "roads"}

\* MinMaxScaler().fit_transform(X): every COLUMN of X is scaled with its own
\* minimum and maximum; a column of one value scales to 0 (its range counts as 1);
\* NaN cells are left out of the minimum and maximum and stay NaN
fit_transform(X) ==
    [c \in DOMAIN X |->
        LET col == {X[d] : d \in {e \in DOMAIN X : e[2] = c[2]}} \ {NaN}
        IN  IF IsNaN(X[c]) \/ col = {} THEN NaN
            ELSE IF SetMax(col) = SetMin(col) THEN 0
            ELSE ((X[c] - SetMin(col)) * U) \div (SetMax(col) - SetMin(col))]

\* MinMaxScaler(copy=False): the array handed to fit_transform is scaled in place
fit_transform_inplace(X) == fit_transform(X)

\* MinMaxScaler() copies (copy=True): the array handed to fit_transform afterwards
fit_transform_input(X) == X

\* 1 - fit_transform(people)
Invert(X) == [c \in DOMAIN X |-> IF IsNaN(X[c]) THEN NaN ELSE U - X[c]]

\* priorities[..] * sun_norm + ... , in 1/(10*U)
total_score(w, sun_norm, water_norm, people_norm, roads_norm) ==
    [c \in DOMAIN sun_norm |->
        IF IsNaN(sun_norm[c]) \/ IsNaN(water_norm[c])
               \/ IsNaN(people_norm[c]) \/ IsNaN(roads_norm[c])
        THEN NaN
        ELSE w["sunshine"] * sun_norm[c] + w["water"] * water_norm[c]
                 + w["people"] * people_norm[c] + w["roads"] * roads_norm[c]]

calculate_spot_scores(w, sun, wat, peo, roa) ==
    total_score(w, fit_transform(sun), fit_transform(wat),
                Invert(fit_transform(peo)), fit_transform(roa))

\* float comparisons: false when an operand is NaN
Gt(a, b) == ~IsNaN(a) /\ a > b
Le(a, b) == ~IsNaN(a) /\ a <= b

\* zones[mask] = v
MaskAssign(z, mask, v) == [c \in DOMAIN z |-> IF mask[c] THEN v ELSE z[c]]

\* rank_spots with the second interval open at the top:
\* zones[(scores > 0.4) & (scores < 0.7)] = 2
rank_spots_open(s) ==
    LET z0 == [c \in DOMAIN s |-> 0]
        z3 == MaskAssign(z0, [c \in DOMAIN s |-> Gt(s[c], 7 * U)], 3)
        z2 == MaskAssign(z3, [c \in DOMAIN s |-> Gt(s[c], 4 * U) /\ ~IsNaN(s[c]) /\ s[c] < 7 * U], 2)
        z1 == MaskAssign(z2, [c \in DOMAIN s |-> Gt(s[c], 1 * U) /\ Le(s[c], 4 * U)], 1)
    IN  z1

\* the thresholds 0.7, 0.4, 0.1 in 1/(10*U)
rank_spots(s) ==
    LET z0 == [c \in DOMAIN s |-> 0]
        z3 == MaskAssign(z0, [c \in DOMAIN s |-> Gt(s[c], 7 * U)], 3)
        z2 == MaskAssign(z3, [c \in DOMAIN s |-> Gt(s[c], 4 * U) /\ Le(s[c], 7 * U)], 2)
        z1 == MaskAssign(z2, [c \in DOMAIN s |-> Gt(s[c], 1 * U) /\ Le(s[c], 4 * U)], 1)
    IN  z1

-----------------------------------------------------------------------------
(* The inputs of a run *)

\* the rows of seq whose index is in I, in the order of seq
SubList(seq, I) ==
    LET F[k \in 0..Len(seq)] ==
            IF k = 0 THEN <<>>
            ELSE IF k \in I THEN Append(F[k - 1], seq[k]) ELSE F[k - 1]
    IN  F[Len(seq)]

SubLists(seq, n) ==
    {SubList(seq, I) : I \in {J \in SUBSET (1..Len(seq)) : Cardinality(J) <= n}}

\* rows of get_real_sunshine_data (Senegal, Niger, Mauritania: sun_power in tenths,
\* coordinates in 1/CU degree) and one more country placed on the grid's first
\* point (lat 10, lon -18), which is a cell of every grid
CountryTable ==
    << [country |-> "Senegal",    sun_power |-> 58, lat |-> 145, lon |-> -145],
       [country |-> "Niger",      sun_power |-> 63, lat |-> 170, lon |-> 90],
       [country |-> "Mauritania", sun_power |-> 64, lat |-> 200, lon |-> -100],
       [country |-> "GridCorner", sun_power |-> 60, lat |-> 100, lon |-> -180] >>

\* find_water_sources: Lake Chad (size 5.0), and a spring of size 3.0 on the grid's
\* first point
WaterTable ==
    << [name |-> "Lake Chad",   lat |-> 130, lon |-> 140,  size |-> 50],
       [name |-> "GridCorner",  lat |-> 100, lon |-> -180, size |-> 30] >>

\* check_population for the countries above
PopulationTable ==
    ("Senegal" :> 87) @@ ("Niger" :> 20) @@ ("Mauritania" :> 5) @@ ("GridCorner" :> 50)

PopulationPartial == ("Mauritania" :> 5) @@ ("GridCorner" :> 50)

\* big_cities as written in _draw_infrastructure (coordinates rounded to 1/CU degree,
\* importance in tenths)
BigCities ==
    << [name |-> "Dakar",       lat |-> 147, lon |-> -175, importance |-> 9],
       [name |-> "Bamako",      lat |-> 127, lon |-> -80,  importance |-> 8],
       [name |-> "Niamey",      lat |-> 135, lon |-> 21,   importance |-> 7],
       [name |-> "N'Djamena",   lat |-> 121, lon |-> 151,  importance |-> 6],
       [name |-> "Ouagadougou", lat |-> 124, lon |-> -15,  importance |-> 7] >>

\* one city on the grid's first point
CornerCity == << [name |-> "GridCorner", lat |-> 100, lon |-> -180, importance |-> 8] >>

\* the priorities of CityFinderAI.__init__, in tenths
ConfiguredPriorities ==
    ("sunshine" :> 6) @@ ("water" :> 2) @@ ("people" :> 1) @@ ("roads" :> 1)

\* priorities a caller can assign to the attribute: a factor missing, a negative
\* weight, a sum other than 1
PriorityMaps ==
    { ConfiguredPriorities,
      ("sunshine" :> 6) @@ ("water" :> 2) @@ ("people" :> 2),
      ("sunshine" :> 6) @@ ("water" :> 2) @@ ("people" :> -1) @@ ("roads" :> 3),
      ("sunshine" :> 6) @@ ("water" :> 6) @@ ("people" :> 1) @@ ("roads" :> 1) }

NoArray == <<>>

-----------------------------------------------------------------------------
(* app.py: the values of the script and its pure steps *)

None == "None"

\* a City cell pandas reads as NaN (a blank field); NaN equals nothing
NaNCity == "nan"

\* rows of solar_data.csv: City, Country, GHI in tenths of kWh/m2/day.  Two rows
\* share a city name, one has no city name
CityRows ==
    { [City |-> "Cairo", Country |-> "Egypt", GHI |-> 62],
      [City |-> "Kano", Country |-> "Nigeria", GHI |-> 58],
      [City |-> "Kano", Country |-> "Niger", GHI |-> 61],
      [City |-> NaNCity, Country |-> "Mali", GHI |-> 60] }

Tables == UNION { [1..n -> CityRows] : n \in 0..MaxRows }

\* the file is absent, has no bytes at all, or is a CSV with a header line and rows
Files ==
    { [kind |-> "missing", rows |-> <<>>], [kind |-> "zero_bytes", rows |-> <<>>] }
        \cup { [kind |-> "csv", rows |-> t] : t \in Tables }

EnvKeys == {None, "", "env-key"}
KeyInputs == {"", "typed-key"}

\* truth value of an optional string: None and "" are false
Truthy(k) == k \notin {None, ""}

\* load_data on a file read_csv can parse, or on a missing file (empty DataFrame)
load_data(f) == IF f.kind = "csv" THEN f.rows ELSE <<>>

\* the API key of a run: the environment's, else the text_input's value
ApiKey(env, typed) == IF Truthy(env) THEN env ELSE typed

\* df["City"].tolist()
Options(d) == [i \in 1..Len(d) |-> d[i].City]

\* st.sidebar.selectbox: the option at the widget's index, the first by default,
\* None without options
selectbox(options, idx) ==
    IF options = <<>> THEN None
    ELSE IF idx \in 1..Len(options) THEN options[idx] ELSE options[1]

\* df[df["City"] == name]
Matches(d, name) == SelectSeq(d, LAMBDA r : r.City = name /\ name # NaNCity)

\* the f-string handed to generate_content: city, country and GHI of the row
prompt(row) == <<row.City, row.Country, row.GHI>>

\* the conditions of lines 97-101 without the key test
ShouldSendNoKey(data, pressed, key) == data # <<>> /\ pressed

\* lines 97-101: a city is selected, the button was pressed, a key is there
ShouldSend(data, pressed, key) == data # <<>> /\ pressed /\ Truthy(key)

\* before the first script run
AppNotStarted ==
    /\ file = [kind |-> "missing", rows |-> <<>>]
    /\ env_key = None
    /\ cache = <<>>
    /\ key_input = "" /\ city_index = 0
    /\ run = "none"
    /\ df = <<>> /\ api_key = None
    /\ selected_city_name = None /\ selected_city_data = <<>>
    /\ button = FALSE /\ sent = <<>> /\ n_requests = 0

-----------------------------------------------------------------------------
(* find_best_spots *)

Init ==
    /\ pc = "start"
    /\ err = "none"
    /\ size \in 0..MaxSize
    /\ sunshine_data \in SubLists(CountryTable, MaxSources)
    /\ water_sources \in SubLists(WaterTable, MaxSources)
    /\ population_data \in {PopulationTable, PopulationPartial}
    /\ big_cities \in {BigCities, CornerCity, <<>>}
    /\ priorities \in PriorityMaps
    /\ lon_grid = NoArray /\ lat_grid = NoArray
    /\ sunshine = NoArray /\ water = NoArray /\ people = NoArray /\ roads = NoArray
    /\ scores = NoArray /\ zones = NoArray
    /\ AppNotStarted

\* create_sahel_map(size).  On an empty grid (size = 0) np.min in _draw_sunshine
\* raises ValueError, after the coordinate arrays are built.
CreateSahelMap ==
    /\ pc = "start"
    /\ LET lons == linspace(-18 * CU, 40 * CU, size)
           lats == linspace(10 * CU, 20 * CU, size)
           lg == meshgrid_lon(lons, lats)
           tg == meshgrid_lat(lons, lats)
       IN  /\ lon_grid' = lg
           /\ lat_grid' = tg
           /\ IF DOMAIN lg = {}
              THEN /\ pc' = "failed"
                   /\ err' = "ValueError"
                   /\ UNCHANGED <<sunshine, water, people, roads>>
              ELSE /\ pc' = "mapped"
                   /\ err' = "none"
                   /\ sunshine' = DrawSunshine(lg, tg, sunshine_data)
                   /\ water' = DrawWater(lg, tg, water_sources)
                   /\ people' = DrawPeople(lg, tg, population_data, sunshine_data)
                   /\ roads' = DrawInfrastructure(lg, tg, big_cities)
    /\ UNCHANGED <<size, sunshine_data, water_sources, population_data, big_cities,
                   priorities, scores, zones>>
    /\ UNCHANGED appvars

\* calculate_spot_scores(sunshine, water, people, roads): the four fit_transform
\* calls, then the weighted sum, which raises KeyError on a missing priority
CalculateSpotScores ==
    /\ pc = "mapped"
    /\ sunshine' = fit_transform_input(sunshine)
    /\ water' = fit_transform_input(water)
    /\ roads' = fit_transform_input(roads)
    /\ people' = fit_transform_input(people)
    /\ IF Factors \subseteq DOMAIN priorities
       THEN /\ scores' = calculate_spot_scores(priorities, sunshine, water, people, roads)
            /\ pc' = "scored"
            /\ err' = "none"
       ELSE /\ pc' = "failed"
            /\ err' = "KeyError"
            /\ UNCHANGED scores
    /\ UNCHANGED <<size, sunshine_data, water_sources, population_data, big_cities,
                   priorities, lon_grid, lat_grid, zones>>
    /\ UNCHANGED appvars

\* rank_spots(scores)
RankSpots ==
    /\ pc = "scored"
    /\ zones' = rank_spots(scores)
    /\ pc' = "ranked"
    /\ UNCHANGED <<err, size, sunshine_data, water_sources, population_data, big_cities,
                   priorities, lon_grid, lat_grid, sunshine, water, people, roads, scores>>
    /\ UNCHANGED appvars

Next == CreateSahelMap \/ CalculateSpotScores \/ RankSpots

Spec == Init /\ [][Next]_vars

-----------------------------------------------------------------------------
(* rank_spots called on its own, on score maps at and around the thresholds *)

ScoreSamples ==
    {NaN, 0, 1 * U, 1 * U + 100, 4 * U, 4 * U + 100, 7 * U, 7 * U + 100, 10 * U}

InitRank ==
    /\ pc = "scored"
    /\ err = "none"
    /\ size = 0
    /\ sunshine_data = <<>> /\ water_sources = <<>>
    /\ population_data = PopulationTable
    /\ big_cities = BigCities
    /\ priorities = ConfiguredPriorities
    /\ lon_grid = NoArray /\ lat_grid = NoArray
    /\ sunshine = NoArray /\ water = NoArray /\ people = NoArray /\ roads = NoArray
    /\ scores \in [(1..1) \X (1..RankCols) -> ScoreSamples]
    /\ zones = NoArray
    /\ AppNotStarted

NextRank == RankSpots

SpecRank == InitRank /\ [][NextRank]_vars

-----------------------------------------------------------------------------
(* app.py: script runs of one browser session *)

InitApp ==
    /\ pc = "start"
    /\ err = "none"
    /\ size = 0
    /\ sunshine_data = <<>> /\ water_sources = <<>>
    /\ population_data = PopulationTable
    /\ big_cities = BigCities
    /\ priorities = ConfiguredPriorities
    /\ lon_grid = NoArray /\ lat_grid = NoArray
    /\ sunshine = NoArray /\ water = NoArray /\ people = NoArray /\ roads = NoArray
    /\ scores = NoArray /\ zones = NoArray
    /\ file \in Files
    /\ env_key \in EnvKeys
    /\ cache = <<>>
    /\ key_input = "" /\ city_index = 0
    /\ run = "none"
    /\ df = <<>> /\ api_key = None
    /\ selected_city_name = None /\ selected_city_data = <<>>
    /\ button = FALSE /\ sent = <<>> /\ n_requests = 0

\* One run of the script, top to bottom, with the widget values of the session.
\* read_csv raises EmptyDataError on a file without bytes, which load_data does
\* not catch; iloc[0] raises IndexError when no row matches the selected name.
\* An exception ends the run; names not yet assigned are shown as None.
ScriptRun(typed, idx, pressed) ==
    /\ key_input' = typed
    /\ city_index' = idx
    /\ UNCHANGED <<file, env_key>>
    /\ IF cache = <<>> /\ file.kind = "zero_bytes"
       THEN /\ run' = "EmptyDataError"
            /\ df' = <<>> /\ api_key' = None
            /\ selected_city_name' = None /\ selected_city_data' = <<>>
            /\ button' = FALSE /\ sent' = <<>>
            /\ UNCHANGED <<cache, n_requests>>
       ELSE LET d == IF cache # <<>> THEN cache[1] ELSE load_data(file)
                key == ApiKey(env_key, typed)
                name == selectbox(Options(d), idx)
                found == Matches(d, name)
            IN  /\ cache' = <<d>>
                /\ df' = d
                /\ api_key' = key
                /\ selected_city_name' = name
                /\ IF d # <<>> /\ found = <<>>
                   THEN /\ run' = "IndexError"
                        /\ selected_city_data' = <<>>
                        /\ button' = FALSE /\ sent' = <<>>
                        /\ UNCHANGED n_requests
                   ELSE LET data == IF d # <<>> THEN <<found[1]>> ELSE <<>>
                            send == ShouldSend(data, pressed, key)
                        IN  /\ run' = "done"
                            /\ selected_city_data' = data
                            /\ button' = (data # <<>> /\ pressed)
                            /\ sent' = IF send THEN <<prompt(data[1])>> ELSE <<>>
                            /\ n_requests' = IF send THEN n_requests + 1 ELSE n_requests
    /\ UNCHANGED pipevars

\* the browser opens the page
OpenPage ==
    /\ run = "none"
    /\ ScriptRun("", 0, FALSE)

\* a rerun that changes no widget (the map was moved, "Rerun" was chosen)
Rerun ==
    /\ run # "none"
    /\ ScriptRun(key_input, city_index, FALSE)

\* the user types into the text_input, which line 34 shows without an
\* environment key
EnterApiKey(k) ==
    /\ run \in {"done", "IndexError"}
    /\ ~Truthy(env_key)
    /\ k # key_input
    /\ ScriptRun(k, city_index, FALSE)

\* the user picks another option of the selectbox
SelectCity(i) ==
    /\ run \in {"done", "IndexError"}
    /\ i \in 1..Len(df)
    /\ i # (IF city_index = 0 THEN 1 ELSE city_index)
    /\ ScriptRun(key_input, i, FALSE)

\* the user presses "Generate Investment Report", which line 98 shows when a
\* city is selected
PressButton ==
    /\ run = "done"
    /\ selected_city_data # <<>>
    /\ n_requests < MaxRequests
    /\ ScriptRun(key_input, city_index, TRUE)

NextApp ==
    \/ OpenPage
    \/ Rerun
    \/ \E k \in KeyInputs : EnterApiKey(k)
    \/ \E i \in 1..MaxRows : SelectCity(i)
    \/ PressButton

SpecApp == InitApp /\ [][NextApp]_vars

-----------------------------------------------------------------------------
(* Vocabulary of the properties *)

\* create_sahel_map returned: the four fields exist
Mapped == pc \in {"mapped", "scored", "ranked"} \/ (pc = "failed" /\ err = "KeyError")

\* calculate_spot_scores returned a score map
Scored == pc \in {"scored", "ranked"}

AllZero(a) == \A c \in DOMAIN a : a[c] = 0
HasNaN(a) == \E c \in DOMAIN a : IsNaN(a[c])
Constant(a) == \A c, d \in DOMAIN a : a[c] = a[d]

\* the source lies exactly on a grid cell
AtCell(src) == \E c \in DOMAIN lon_grid : lon_grid[c] = src.lon /\ lat_grid[c] = src.lat
CellOf(src) == CHOOSE c \in DOMAIN lon_grid : lon_grid[c] = src.lon /\ lat_grid[c] = src.lat

\* a holds its maximum at cell c
MaxAt(a, c) == ~HasNaN(a) /\ \A d \in DOMAIN a : a[d] <= a[c]

-----------------------------------------------------------------------------
(* C1 *)

\* the zone the threshold table gives a score (in 1/(10*U)); NaN is in no interval
ZoneOf(s) ==
    IF IsNaN(s) THEN 0
    ELSE IF s > 7 * U THEN 3
    ELSE IF s > 4 * U /\ s <= 7 * U THEN 2
    ELSE IF s > 1 * U /\ s <= 4 * U THEN 1
    ELSE 0

\* C1: rank_spots gives every cell the zone of the threshold table (3 above 0.7,
\* 2 in (0.4, 0.7], 1 in (0.1, 0.4], 0 otherwise); 0.71 -> 3, 0.70 -> 2, 0.11 -> 1,
\* 0.10 -> 0; no cell gets a value outside {0,1,2,3}.
C1_ZoneClassification ==
    pc = "ranked" =>
        /\ DOMAIN zones = DOMAIN scores
        /\ \A c \in DOMAIN scores :
               /\ zones[c] \in 0..3
               /\ zones[c] = ZoneOf(scores[c])
               /\ (scores[c] = 7100 => zones[c] = 3)
               /\ (scores[c] = 7000 => zones[c] = 2)
               /\ (scores[c] = 1100 => zones[c] = 1)
               /\ (scores[c] = 1000 => zones[c] = 0)

C1_Witness ==
    /\ pc = "ranked"
    /\ \E a, b, c, d \in DOMAIN scores :
          /\ scores[a] = 7100 /\ zones[a] = 3
          /\ scores[b] = 7000 /\ zones[b] = 2
          /\ scores[c] = 1100 /\ zones[c] = 1
          /\ scores[d] = 1000 /\ zones[d] = 0

-----------------------------------------------------------------------------
(* C2 *)

\* (raw - min(raw)) / (max(raw) - min(raw)) with min and max over the whole field
WholeFieldNorm(X) ==
    [c \in DOMAIN X |-> ((X[c] - ArrMin(X)) * U) \div (ArrMax(X) - ArrMin(X))]

NormalizedOverWholeField(X) ==
    (~HasNaN(X) /\ ~Constant(X)) =>
        LET N == fit_transform(X)
        IN  /\ N = WholeFieldNorm(X)
            /\ \A c \in DOMAIN X : (X[c] = ArrMin(X) => N[c] = 0)
            /\ \A c \in DOMAIN X : (X[c] = ArrMax(X) => N[c] = U)
            /\ \A c, d \in DOMAIN X : (X[c] <= X[d] => N[c] <= N[d])

\* C2: every non-constant raw field handed to calculate_spot_scores is normalized
\* with the minimum and maximum of the whole field: 0 at the global minimum, 1 at the
\* global maximum, the order of the cells kept across the grid.
C2_WholeFieldNormalization ==
    pc = "mapped" =>
        /\ NormalizedOverWholeField(sunshine)
        /\ NormalizedOverWholeField(water)
        /\ NormalizedOverWholeField(people)
        /\ NormalizedOverWholeField(roads)

-----------------------------------------------------------------------------
(* C3 *)

\* C3: with the configured weights (0.6, 0.2, 0.1, 0.1) the composite score of every
\* cell lies in [0,1], whatever the input fields (here: whatever fields
\* create_sahel_map hands over on a valid grid, size >= 2).
C3_ScoreInUnitInterval ==
    (size >= 2 /\ Scored /\ priorities = ConfiguredPriorities) =>
        \A c \in DOMAIN scores :
            ~IsNaN(scores[c]) /\ 0 <= scores[c] /\ scores[c] <= 10 * U

-----------------------------------------------------------------------------
(* C4 *)

\* no row of sunshine_data has a population: the people factor has zero sources
NoPeopleSources ==
    \A k \in 1..Len(sunshine_data) : sunshine_data[k].country \notin DOMAIN population_data

ZeroField(a) == AllZero(a) /\ AllZero(fit_transform(a))

\* C4: on a valid grid (size >= 2) a factor with zero sources is synthesized without
\* an exception as an all-zero field, and that field normalizes to all zeros; nothing
\* on the way divides by zero (no NaN).
C4_ZeroSourcesAllZero ==
    (size >= 2 /\ pc # "start") =>
        /\ Mapped
        /\ (sunshine_data = <<>> => ZeroField(sunshine))
        /\ (water_sources = <<>> => ZeroField(water))
        /\ (NoPeopleSources => ZeroField(people))
        /\ (big_cities = <<>> => ZeroField(roads))

-----------------------------------------------------------------------------
(* C5 *)

\* people_count / 100.0 and importance, in 1/U
PeopleMagnitude(count) == (count * U) \div 100
CityMagnitude(importance) == (importance * U) \div 10

OneSunSource == Len(sunshine_data) = 1 /\ AtCell(sunshine_data[1])
OnePeopleSource == OneSunSource /\ sunshine_data[1].country \in DOMAIN population_data
OneWaterSource == Len(water_sources) = 1 /\ AtCell(water_sources[1])
OneCity == Len(big_cities) = 1 /\ AtCell(big_cities[1])

-----------------------------------------------------------------------------
(* C6 *)

\* sources with the magnitude of one of them raised
RaisedSunshine(k, b) == [sunshine_data EXCEPT ![k].sun_power = @ + b]
RaisedCities(k, b) == [big_cities EXCEPT ![k].importance = @ + b]
RaisedPopulation(n, b) == [population_data EXCEPT ![n] = @ + 10 * b]

\* a magnitude is raised by 0.1 or 0.2
Bumps == {1, 2}

\* C6 as stated: raising the magnitude of one source, the others fixed, lowers the
\* returned raw field of its factor at no cell (sunshine, infrastructure, people).
\* A drop of up to 2/U is taken for rounding and not counted.
C6_ReturnedFieldMonotone ==
    (pc = "mapped" /\ ~HasNaN(sunshine)) =>
        /\ \A k \in 1..Len(sunshine_data), b \in Bumps :
               LET f == DrawSunshine(lon_grid, lat_grid, RaisedSunshine(k, b))
               IN  \A c \in DOMAIN sunshine : ~IsNaN(f[c]) /\ f[c] + 2 >= sunshine[c]
        /\ \A k \in 1..Len(big_cities), b \in Bumps :
               LET f == DrawInfrastructure(lon_grid, lat_grid, RaisedCities(k, b))
               IN  \A c \in DOMAIN roads : f[c] + 2 >= roads[c]
        /\ \A n \in DOMAIN population_data, b \in Bumps :
               LET f == DrawPeople(lon_grid, lat_grid, RaisedPopulation(n, b), sunshine_data)
               IN  \A c \in DOMAIN people : f[c] >= people[c]

\* C6 amended: raising the magnitude of one source, the others fixed, lowers at no
\* cell the field that the people factor returns, nor the sum that the sunshine and
\* infrastructure loops accumulate before the factor's own rescale (the returned
\* sunshine and infrastructure fields, rescaled by their own minimum and maximum, can
\* go down at other cells).
C6_AccumulatedFieldMonotone ==
    pc = "mapped" =>
        /\ \A n \in DOMAIN population_data, b \in Bumps :
               LET f == DrawPeople(lon_grid, lat_grid, RaisedPopulation(n, b), sunshine_data)
               IN  \A c \in DOMAIN people : f[c] >= people[c]
        /\ LET g == AccumSunshine(lon_grid, lat_grid, sunshine_data)
           IN  \A k \in 1..Len(sunshine_data), b \in Bumps :
                   LET f == AccumSunshine(lon_grid, lat_grid, RaisedSunshine(k, b))
                   IN  \A c \in DOMAIN lon_grid : f[c] >= g[c]
        /\ LET g == AccumInfrastructure(lon_grid, lat_grid, big_cities)
           IN  \A k \in 1..Len(big_cities), b \in Bumps :
                   LET f == AccumInfrastructure(lon_grid, lat_grid, RaisedCities(k, b))
                   IN  \A c \in DOMAIN lon_grid : f[c] >= g[c]

C6_Witness ==
    /\ pc = "mapped" /\ size >= 2
    /\ Len(sunshine_data) = MaxSources
    /\ \E n \in DOMAIN population_data, c \in DOMAIN people :
          DrawPeople(lon_grid, lat_grid, RaisedPopulation(n, 1), sunshine_data)[c] > people[c]
    /\ \E k \in 1..Len(big_cities), c \in DOMAIN roads :
          DrawInfrastructure(lon_grid, lat_grid, RaisedCities(k, 1))[c] + 2 < roads[c]

-----------------------------------------------------------------------------
(* C7 *)

\* c is a cell nearest to the source
Nearest(src, c) ==
    \A d \in DOMAIN lon_grid :
        Distance(lon_grid, lat_grid, c, src.lon, src.lat)
            <= Distance(lon_grid, lat_grid, d, src.lon, src.lat)

\* C7: on a valid grid (size >= 2) every cell of the returned sunshine field lies in
\* [4.5, 6.5], the minimum of the field is 4.5 and its maximum 6.5, and with a single
\* source the cell nearest to it holds 6.5.
C7_SunshineRange ==
    (pc = "mapped" /\ size >= 2) =>
        /\ ~HasNaN(sunshine)
        /\ \A c \in DOMAIN sunshine :
               (45 * U) \div 10 <= sunshine[c] /\ sunshine[c] <= (65 * U) \div 10
        /\ ArrMin(sunshine) = (45 * U) \div 10
        /\ ArrMax(sunshine) = (65 * U) \div 10
        /\ (Len(sunshine_data) = 1 =>
               \A c \in DOMAIN sunshine :
                   Nearest(sunshine_data[1], c) => sunshine[c] = (65 * U) \div 10)

-----------------------------------------------------------------------------
(* C8 *)

\* every factor has a weight, no weight is negative, the weights sum to 1
ValidWeights(w) ==
    /\ Factors \subseteq DOMAIN w
    /\ \A f \in Factors : w[f] >= 0
    /\ w["sunshine"] + w["water"] + w["people"] + w["roads"] = 10

\* C8: scoring (here: of the fields of a valid grid with sunshine sources) with
\* weights that miss a factor, hold a negative weight or do not sum to 1 fails and
\* produces no score map (whatever exception ends it counts as the failure here).
C8_InvalidWeightsRejected ==
    (pc \in {"scored", "ranked", "failed"} /\ size >= 2 /\ sunshine_data # <<>>
         /\ ~ValidWeights(priorities)) =>
        pc = "failed" /\ scores = NoArray

-----------------------------------------------------------------------------
(* C9 *)

\* C9: create_sahel_map with size < 2 fails (whatever exception ends it counts as the
\* failure here) before a coordinate or field array is built; no field is synthesized.
C9_InvalidSpecRejected ==
    (size < 2 /\ pc # "start") =>
        /\ pc = "failed"
        /\ lon_grid = NoArray /\ lat_grid = NoArray
        /\ sunshine = NoArray /\ water = NoArray /\ people = NoArray /\ roads = NoArray

-----------------------------------------------------------------------------
(* C10 *)

Fields == <<sunshine, water, people, roads>>

\* what reaches the reporting steps is what was synthesized and scored
HandedOverAsComputed ==
    /\ Mapped =>
          /\ sunshine = DrawSunshine(lon_grid, lat_grid, sunshine_data)
          /\ water = DrawWater(lon_grid, lat_grid, water_sources)
          /\ people = DrawPeople(lon_grid, lat_grid, population_data, sunshine_data)
          /\ roads = DrawInfrastructure(lon_grid, lat_grid, big_cities)
    /\ Scored => scores = calculate_spot_scores(priorities, sunshine, water, people, roads)

\* C10: no stage changes an array it is handed: calculate_spot_scores leaves the four
\* fields as they are, rank_spots leaves the score map (and the fields) as it is, so
\* the fields and scores that reach the reporting steps are the ones synthesized and
\* scored.
C10_StagesLeaveInputsUnchanged ==
    /\ []HandedOverAsComputed
    /\ [][(pc = "mapped" => Fields' = Fields)
            /\ (pc = "scored" => Fields' = Fields /\ scores' = scores)]_vars

C10_Witness ==
    /\ pc = "ranked"
    /\ ~HasNaN(sunshine)
    /\ fit_transform(sunshine) # sunshine
    /\ fit_transform(water) # water
    /\ zones # scores

-----------------------------------------------------------------------------
(* C11 *)

\* the file on disk holds no city: it is missing, has no bytes, or has no rows
NoCityData == file.kind # "csv" \/ file.rows = <<>>

\* the selected city is a row of the loaded table
SelectedIsRow ==
    /\ selected_city_data # <<>>
    /\ \E i \in 1..Len(df) : df[i] = selected_city_data[1]
    /\ selected_city_data[1].City = selected_city_name

\* the state in which a request may leave: table loaded and non-empty, selected
\* city a row of it, button pressed, key non-empty, prompt built from that row
ReadyToSend ==
    /\ run = "done"
    /\ cache = <<df>> /\ df # <<>>
    /\ SelectedIsRow
    /\ button
    /\ Truthy(api_key)
    /\ sent = <<prompt(selected_city_data[1])>>

\* C11: over any sequence of page runs and user interactions, a request goes to
\* the text-generation service only in a run that ends with a non-empty loaded
\* city table, a selected city that is a row of that table, the report button
\* pressed and a non-empty API key; and when the data file is missing or empty,
\* no city is selected and no request is ever sent.
C11_RequestOnlyWhenReady ==
    /\ [](sent # <<>> => ReadyToSend)
    /\ [](NoCityData => /\ selected_city_name = None
                        /\ selected_city_data = <<>>
                        /\ sent = <<>>
                        /\ n_requests = 0)
    /\ [][n_requests' # n_requests =>
              /\ n_requests' = n_requests + 1
              /\ sent' # <<>>]_vars

\* a request was sent with a typed key, for a city the user picked, which is
\* not the first row of the table
C11_Witness ==
    /\ sent # <<>>
    /\ n_requests = MaxRequests
    /\ ~Truthy(env_key)
    /\ city_index > 1
    /\ selected_city_data # <<df[1]>>

====
